---- MODULE Spec2Model ----
(***************************************************************************)
(* A model of cyclone/locale.py: the module-level locale registry          *)
(* (_default_locale, _translations, _supported_locales), the matcher       *)
(* Locale.get_closest, and the formatters Locale.format_date and           *)
(* Locale.friendly_number.                                                 *)
(*                                                                         *)
(* A Python string is a sequence of one-character strings, so that         *)
(* replace, split, lower, upper, startswith and slicing are computed       *)
(* character by character.  Python's None is the one-element sequence      *)
(* None below, which no character sequence equals.                         *)
(***************************************************************************)
EXTENDS Integers, Sequences, FiniteSets, TLC

VARIABLES
    default_locale,     \* _default_locale            (locale.py:48)
    translations,       \* _translations: code -> catalog (locale.py:49)
    supported_locales,  \* _supported_locales         (locale.py:50)
    ret,                \* the outcome of the most recent completed call
    ld,                 \* a load_translations call in progress (race model)
    rd                  \* a get_closest call in progress (race model)

vars == <<default_locale, translations, supported_locales, ret, ld, rd>>

(***************************************************************************)
(* Python strings                                                          *)
(***************************************************************************)
None == <<"<None>">>

LowerLetters == <<"a","b","c","d","e","f","g","h","i","j","k","l","m",
                  "n","o","p","q","r","s","t","u","v","w","x","y","z">>

UpperLetters == <<"A","B","C","D","E","F","G","H","I","J","K","L","M",
                  "N","O","P","Q","R","S","T","U","V","W","X","Y","Z">>

IsLowerChar(c) == \E i \in DOMAIN LowerLetters : LowerLetters[i] = c

IsUpperChar(c) == \E i \in DOMAIN UpperLetters : UpperLetters[i] = c

LowerChar(c) ==
    IF IsUpperChar(c)
    THEN LowerLetters[CHOOSE i \in DOMAIN UpperLetters : UpperLetters[i] = c]
    ELSE c

UpperChar(c) ==
    IF IsLowerChar(c)
    THEN UpperLetters[CHOOSE i \in DOMAIN LowerLetters : LowerLetters[i] = c]
    ELSE c

\* str.lower()
lower(s) == [i \in 1..Len(s) |-> LowerChar(s[i])]

\* str.upper()
upper(s) == [i \in 1..Len(s) |-> UpperChar(s[i])]

\* str.replace(old, new) for one-character old and new
replace(s, old, new) == [i \in 1..Len(s) |-> IF s[i] = old THEN new ELSE s[i]]

\* str.startswith(prefix)
startswith(s, prefix) ==
    /\ Len(prefix) <= Len(s)
    /\ SubSeq(s, 1, Len(prefix)) = prefix

\* str.split(sep) for a one-character sep: always at least one part
RECURSIVE split(_, _)
split(s, sep) ==
    IF \E i \in 1..Len(s) : s[i] = sep
    THEN LET k == CHOOSE i \in 1..Len(s) :
                      /\ s[i] = sep
                      /\ \A j \in 1..(i - 1) : s[j] # sep
         IN  <<SubSeq(s, 1, k - 1)>> \o split(SubSeq(s, k + 1, Len(s)), sep)
    ELSE <<s>>

(***************************************************************************)
(* Locale codes used as inputs                                             *)
(***************************************************************************)
en == <<"e","n">>
EN == <<"E","N">>
pt == <<"p","t">>
en_US == <<"e","n","_","U","S">>
pt_BR == <<"p","t","_","B","R">>
ru_RU == <<"r","u","_","R","U">>
fr_FR == <<"f","r","_","F","R">>
zh_CN == <<"z","h","_","C","N">>
pt_br == <<"p","t","-","b","r">>
EN_gb == <<"E","N","-","g","b">>
pt_BR_x == <<"p","t","_","B","R","_","x">>

\* names os.listdir(directory) may return
DirNames == { pt_BR, pt }

\* arguments of set_default_locale
DefaultArgs == { en_US, pt_BR, en, EN }

\* candidate codes handed to get_closest
CandidatePool ==
    { None, <<>>, EN, pt_br, EN_gb, pt_BR_x }

\* the longest candidate list handed to get_closest
MaxCandidates == 2

CandidateLists == UNION { [1..n -> CandidatePool] : n \in 0..MaxCandidates }

(***************************************************************************)
(* Catalogs and Locale objects                                             *)
(***************************************************************************)
\* gettext.NullTranslations()
NullTranslations == [kind |-> "null", lang |-> <<>>]

\* gettext.translation(domain, directory, languages=[lang])
Catalog(lang) == [kind |-> "mo", lang |-> lang]

\* Locale(code, translator)
Locale(code, translator) == [code |-> code, translator |-> translator]

\* a mutant of KeysPlusDefault: the old set is added to, not replaced
KeysPlusDefault_keepOld(trans, dflt) ==
    supported_locales \cup (DOMAIN trans) \cup {dflt}

\* frozenset(_translations.keys() + [_default_locale])

KeysPlusDefault(trans, dflt) == (DOMAIN trans) \cup {dflt}

\* Locale.get(code)
Locale_get(code) ==
    LET translator == IF code \in DOMAIN translations
                      THEN translations[code]
                      ELSE NullTranslations
    IN  Locale(code, translator)

NoMatch == <<"<NoMatch>">>

\* a mutant of MatchCandidate: the bare language is tried before the whole code
MatchCandidate_langFirst(code0) ==
    IF code0 = None \/ code0 = <<>> THEN NoMatch
    ELSE LET code1 == replace(code0, "-", "_")
             parts == split(code1, "_")
             code  == IF Len(parts) = 2
                      THEN lower(parts[1]) \o <<"_">> \o upper(parts[2])
                      ELSE code1
         IN  IF Len(parts) > 2 THEN NoMatch
             ELSE IF lower(parts[1]) \in supported_locales THEN lower(parts[1])
             ELSE IF code \in supported_locales THEN code
             ELSE NoMatch

\* a mutant of MatchCandidate: the candidate is returned as it was given
MatchCandidate_raw(code0) ==
    IF code0 = None \/ code0 = <<>> THEN NoMatch
    ELSE LET code1 == replace(code0, "-", "_")
             parts == split(code1, "_")
             code  == IF Len(parts) = 2
                      THEN lower(parts[1]) \o <<"_">> \o upper(parts[2])
                      ELSE code1
         IN  IF Len(parts) > 2 THEN NoMatch
             ELSE IF code \in supported_locales THEN code0
             ELSE IF lower(parts[1]) \in supported_locales THEN lower(parts[1])
             ELSE NoMatch

\* one iteration of the loop of Locale.get_closest: the code the candidate
\* selects, or NoMatch when the loop goes on to the next candidate
MatchCandidate(code0) ==
    IF code0 = None \/ code0 = <<>> THEN NoMatch
    ELSE LET code1 == replace(code0, "-", "_")
             parts == split(code1, "_")
             code  == IF Len(parts) = 2
                      THEN lower(parts[1]) \o <<"_">> \o upper(parts[2])
                      ELSE code1
         IN  IF Len(parts) > 2 THEN NoMatch
             ELSE IF code \in supported_locales THEN code
             ELSE IF lower(parts[1]) \in supported_locales THEN lower(parts[1])
             ELSE NoMatch

\* Locale.get_closest(*locale_codes), from candidate i on
RECURSIVE get_closest_from(_, _)
get_closest_from(locale_codes, i) ==
    IF i > Len(locale_codes) THEN Locale_get(default_locale)
    ELSE LET m == MatchCandidate(locale_codes[i])
         IN  IF m # NoMatch THEN Locale_get(m)
             ELSE get_closest_from(locale_codes, i + 1)

get_closest(locale_codes) == get_closest_from(locale_codes, 1)

(***************************************************************************)
(* The registry, one call at a time                                        *)
(***************************************************************************)
NoCall == [op |-> "none"]

IdleLoader == [pc |-> "idle", before |-> {}, loadable |-> {}, todo |-> {}]

IdleReader == [pc |-> "idle", codes |-> <<>>, i |-> 0, code |-> NoMatch]

\* the module as imported (locale.py:48-50)
Init ==
    /\ default_locale = en_US
    /\ translations = <<>>
    /\ supported_locales = {en_US}
    /\ ret = NoCall
    /\ ld = IdleLoader
    /\ rd = IdleReader

\* set_default_locale(code)
set_default_locale(code) ==
    /\ default_locale' = code
    /\ supported_locales' = KeysPlusDefault(translations, code)
    /\ ret' = [op |-> "set_default_locale", code |-> code]
    /\ UNCHANGED <<translations, ld, rd>>

\* load_translations(directory): os.listdir returns the names `listed`, of
\* which those in `loadable` have a catalog that os.stat and
\* gettext.translation accept; the others raise inside the try and are skipped
load_translations(listed, loadable) ==
    /\ translations' = [lang \in loadable |-> Catalog(lang)]
    /\ supported_locales' = KeysPlusDefault(translations', default_locale)
    /\ ret' = [op |-> "load_translations", raised |-> FALSE,
               listed |-> listed, loadable |-> loadable]
    /\ UNCHANGED <<default_locale, ld, rd>>

\* load_translations(directory) when os.listdir(directory) raises OSError:
\* line 102 has run, line 112 is never reached, the exception propagates
load_translations_listdir_raises ==
    /\ translations' = <<>>
    /\ ret' = [op |-> "load_translations", raised |-> TRUE,
               listed |-> {}, loadable |-> {}]
    /\ UNCHANGED <<default_locale, supported_locales, ld, rd>>

\* get(*locale_codes) = Locale.get_closest(*locale_codes)
get(locale_codes) ==
    /\ ret' = [op |-> "get_closest", codes |-> locale_codes,
               value |-> get_closest(locale_codes)]
    /\ UNCHANGED <<default_locale, translations, supported_locales, ld, rd>>

SetDefault == \E code \in DefaultArgs : set_default_locale(code)

Load == \E listed \in SUBSET DirNames : \E loadable \in SUBSET listed :
            load_translations(listed, loadable)

LoadRaises == load_translations_listdir_raises

Get == \E locale_codes \in CandidateLists : get(locale_codes)

Next == SetDefault \/ Load \/ LoadRaises \/ Get

Spec == Init /\ [][Next]_vars

(***************************************************************************)
(* Claims about the registry and the matcher (specification Spec)          *)
(***************************************************************************)
\* 'll' or 'll_CC': lowercase language, optional underscore and uppercase country
Canonical(c) ==
    \/ /\ Len(c) = 2
       /\ IsLowerChar(c[1]) /\ IsLowerChar(c[2])
    \/ /\ Len(c) = 5
       /\ IsLowerChar(c[1]) /\ IsLowerChar(c[2])
       /\ c[3] = "_"
       /\ IsUpperChar(c[4]) /\ IsUpperChar(c[5])

RegistryCodes == supported_locales \cup (DOMAIN translations) \cup {default_locale}

C1_Parts(c) == split(replace(c, "-", "_"), "_")

C1_Skipped(c) == c = None \/ c = <<>> \/ Len(C1_Parts(c)) > 2

C1_Whole(c) ==
    IF Len(C1_Parts(c)) = 2
    THEN lower(C1_Parts(c)[1]) \o <<"_">> \o upper(C1_Parts(c)[2])
    ELSE c

C1_Matches(c) ==
    /\ ~C1_Skipped(c)
    /\ \/ C1_Whole(c) \in supported_locales
       \/ lower(C1_Parts(c)[1]) \in supported_locales

C1_Choice(c) ==
    IF C1_Whole(c) \in supported_locales THEN C1_Whole(c)
    ELSE lower(C1_Parts(c)[1])

\* C1: get_closest returns the code chosen by the first candidate, in list
\* order, that matches (the whole normalised code before the bare language of
\* the same candidate; empty, null and three-part candidates skipped), and the
\* registry default when no candidate matches.
C1_FirstMatchWins ==
    ret.op = "get_closest" =>
        LET hits == { i \in 1..Len(ret.codes) : C1_Matches(ret.codes[i]) }
        IN  IF hits = {}
            THEN ret.value.code = default_locale
            ELSE LET first == CHOOSE i \in hits : \A j \in hits : i <= j
                 IN  ret.value.code = C1_Choice(ret.codes[first])

\* the first candidate matches nothing, the second matches as a whole although
\* its bare language is supported too
C1_Witness ==
    /\ ret.op = "get_closest"
    /\ ret.codes = <<EN_gb, pt_br>>
    /\ {pt, pt_BR} \subseteq supported_locales
    /\ en \notin supported_locales
    /\ ret.value.code = pt_BR

\* C2: after any sequence of load_translations and set_default_locale calls,
\* supported = keys(catalogs) united with {default}.
C2_SupportedIsKeysPlusDefault ==
    supported_locales = (DOMAIN translations) \cup {default_locale}

\* C3: every code stored in the registry and every code returned by the
\* matcher is in canonical form.
C3_AllCanonical ==
    /\ \A c \in RegistryCodes : Canonical(c)
    /\ ret.op = "get_closest" => Canonical(ret.value.code)

\* C3 as amended: every code the matcher returns is a member of supported, so
\* it is canonical whenever the codes stored in the registry are; the registry
\* itself holds the default and the catalog names exactly as they were given.
C3_ReturnedIsSupported ==
    /\ default_locale \in DefaultArgs
    /\ (DOMAIN translations) \subseteq DirNames
    /\ ret.op = "get_closest" =>
          /\ ret.value.code \in supported_locales
          /\ (\A c \in RegistryCodes : Canonical(c)) => Canonical(ret.value.code)

\* a hyphenated lowercase candidate is answered by the canonical code
C3_Witness ==
    /\ ret.op = "get_closest"
    /\ ret.codes = <<pt_br>>
    /\ \A c \in RegistryCodes : Canonical(c)
    /\ ret.value.code = pt_BR

\* C4: load_translations always completes; a locale whose catalog cannot be
\* loaded is absent from catalogs and supported afterwards, and every locale
\* that loaded is present in both.
C4_LoadAlwaysSucceeds ==
    ret.op = "load_translations" =>
        /\ ~ret.raised
        /\ \A lang \in ret.listed \ ret.loadable :
              /\ lang \notin DOMAIN translations
              /\ lang \notin supported_locales
        /\ \A lang \in ret.loadable :
              /\ lang \in DOMAIN translations
              /\ lang \in supported_locales

(***************************************************************************)
(* The registry with a load_translations call (the loader) running beside  *)
(* a get_closest call (the reader), with no lock between them: each step   *)
(* below is one statement, or one loop iteration, of the source.           *)
(*   ld.pc: "idle" (no call, or the last one returned), "cleared" (line    *)
(*          102 done), "loop" (lines 104-110), "raised" (os.listdir        *)
(*          raised and the call ended at line 104)                         *)
(*   ld.before: the catalog keys when the call began                       *)
(*   rd.pc: "idle", "loop" (lines 125-139), "get" (line 137, 140 or 142)   *)
(* The default locale is not changed while the two calls run.              *)
(***************************************************************************)
\* load_translations, line 102: _translations = {}
LdClear ==
    /\ ld.pc \in {"idle", "raised"}
    /\ translations' = <<>>
    /\ ld' = [pc |-> "cleared", before |-> DOMAIN translations,
              loadable |-> {}, todo |-> {}]
    /\ UNCHANGED <<default_locale, supported_locales, ret, rd>>

\* line 104: os.listdir(directory) returns the names `listed`
LdListdir ==
    /\ ld.pc = "cleared"
    /\ \E listed \in SUBSET DirNames : \E loadable \in SUBSET listed :
           ld' = [ld EXCEPT !.pc = "loop", !.todo = listed,
                            !.loadable = loadable]
    /\ UNCHANGED <<default_locale, translations, supported_locales, ret, rd>>

\* line 104: os.listdir(directory) raises and the call ends
LdListdirRaises ==
    /\ ld.pc = "cleared"
    /\ ld' = [ld EXCEPT !.pc = "raised"]
    /\ UNCHANGED <<default_locale, translations, supported_locales, ret, rd>>

\* lines 105-110: one iteration, for any name not yet visited
LdIter ==
    /\ ld.pc = "loop"
    /\ \E lang \in ld.todo :
          /\ ld' = [ld EXCEPT !.todo = @ \ {lang}]
          /\ translations' =
                IF lang \in ld.loadable
                THEN [l \in (DOMAIN translations) \cup {lang} |->
                          IF l = lang THEN Catalog(lang) ELSE translations[l]]
                ELSE translations
    /\ UNCHANGED <<default_locale, supported_locales, ret, rd>>

\* line 112: _supported_locales = frozenset(...), and the call returns
LdPublish ==
    /\ ld.pc = "loop"
    /\ ld.todo = {}
    /\ supported_locales' = KeysPlusDefault(translations, default_locale)
    /\ ld' = [ld EXCEPT !.pc = "idle"]
    /\ UNCHANGED <<default_locale, translations, ret, rd>>

\* get(*locale_codes) is called
RdCall ==
    /\ rd.pc = "idle"
    /\ \E locale_codes \in CandidateLists :
           rd' = [pc |-> "loop", codes |-> locale_codes, i |-> 1,
                  code |-> NoMatch]
    /\ UNCHANGED <<default_locale, translations, supported_locales, ret, ld>>

\* lines 125-139 for candidate rd.i, or line 142 when the list is exhausted
RdIter ==
    /\ rd.pc = "loop"
    /\ IF rd.i > Len(rd.codes)
       THEN rd' = [rd EXCEPT !.pc = "get", !.code = default_locale]
       ELSE LET m == MatchCandidate(rd.codes[rd.i])
            IN  IF m # NoMatch
                THEN rd' = [rd EXCEPT !.pc = "get", !.code = m]
                ELSE rd' = [rd EXCEPT !.i = @ + 1]
    /\ UNCHANGED <<default_locale, translations, supported_locales, ret, ld>>

\* cls.get(code), lines 150-153, and the return
RdGet ==
    /\ rd.pc = "get"
    /\ ret' = [op |-> "get_closest", value |-> Locale_get(rd.code)]
    /\ rd' = IdleReader
    /\ UNCHANGED <<default_locale, translations, supported_locales, ld>>

NextRace ==
    \/ LdClear \/ LdListdir \/ LdListdirRaises \/ LdIter \/ LdPublish
    \/ RdCall \/ RdIter \/ RdGet

SpecRace == Init /\ [][NextRace]_vars

\* a supported code other than the default has no catalog
Inconsistent ==
    \E c \in supported_locales \ {default_locale} : c \notin DOMAIN translations

\* C9: the state in which a code is in supported, is not the default and has
\* no catalog is reachable while a reload is running (and only from a reload:
\* it is never seen while no load_translations call has begun and not
\* returned), so a reader can be handed a Locale bound to the null catalog for
\* a code that has a catalog before and after the reload.
C9_InconsistentOnlyFromReload ==
    Inconsistent => ld.pc \in {"cleared", "loop", "raised"}

\* the reader returns pt_BR bound to the null catalog in the middle of a
\* reload that found pt_BR loaded before and will load it again
C9_Witness ==
    /\ ret.op = "get_closest"
    /\ ret.value = Locale(pt_BR, NullTranslations)
    /\ default_locale # pt_BR
    /\ pt_BR \in supported_locales
    /\ ld.pc = "loop"
    /\ pt_BR \in ld.before
    /\ pt_BR \in ld.todo \cap ld.loadable

(***************************************************************************)
(* datetime: a naive datetime is its number of seconds since               *)
(* 1970-01-01 00:00:00, a timedelta is a number of seconds (the model      *)
(* keeps whole seconds).  The calendar is the proleptic Gregorian one of   *)
(* the datetime module, computed from the day number.                      *)
(***************************************************************************)
SecondsPerDay == 24 * 60 * 60

\* timedelta.days and timedelta.seconds of a timedelta
timedelta_days(delta) == delta \div SecondsPerDay

timedelta_seconds(delta) == delta % SecondsPerDay

\* the fields of a datetime
CivilOfDay(z0) ==
    LET z   == z0 + 719468
        era == z \div 146097
        doe == z - era * 146097
        yoe == (doe - doe \div 1460 + doe \div 36524 - doe \div 146096) \div 365
        doy == doe - (365 * yoe + yoe \div 4 - yoe \div 100)
        mp  == (5 * doy + 2) \div 153
        d   == doy - (153 * mp + 2) \div 5 + 1
        m   == IF mp < 10 THEN mp + 3 ELSE mp - 9
        y   == yoe + era * 400 + (IF m <= 2 THEN 1 ELSE 0)
    IN  [year |-> y, month |-> m, day |-> d]

\* the day number of a calendar date
DayOfCivil(y0, m, d) ==
    LET y   == IF m <= 2 THEN y0 - 1 ELSE y0
        era == y \div 400
        yoe == y - era * 400
        mp  == IF m > 2 THEN m - 3 ELSE m + 9
        doy == (153 * mp + 2) \div 5 + d - 1
        doe == yoe * 365 + yoe \div 4 - yoe \div 100 + doy
    IN  era * 146097 + doe - 719468

dt_date(t) == t \div SecondsPerDay

dt_year(t) == CivilOfDay(dt_date(t)).year

dt_month(t) == CivilOfDay(dt_date(t)).month

dt_day(t) == CivilOfDay(dt_date(t)).day

\* datetime.weekday(): Monday is 0; 1970-01-01 was a Thursday
dt_weekday(t) == (dt_date(t) + 3) % 7

dt_hour(t) == (t % SecondsPerDay) \div 3600

dt_minute(t) == (t % 3600) \div 60

\* str(n) and "%d" % n for an integer n
RECURSIVE DigitsOf(_)
DigitsOf(n) ==
    LET digit == <<"0","1","2","3","4","5","6","7","8","9">>[(n % 10) + 1]
    IN  IF n < 10 THEN <<digit>> ELSE DigitsOf(n \div 10) \o <<digit>>

str(n) == IF n < 0 THEN <<"-">> \o DigitsOf(0 - n) ELSE DigitsOf(n)

\* "%02d" % n for 0 <= n
str02(n) == IF n < 10 THEN <<"0">> \o str(n) ELSE str(n)

\* round(n / float(d)) for n >= 0 and d > 0: halves round away from zero
round_div(n, d) == (2 * n + d) \div (2 * d)

(***************************************************************************)
(* Locale.translate and Locale.format_date                                 *)
(***************************************************************************)
\* Locale.translate(message, plural_message, count) with both given, through a
\* catalog that holds no entry for the message (NullTranslations.ngettext)
translate_plural(message, plural_message, count) ==
    IF count = 1 THEN message ELSE plural_message

\* Locale.translate(message): gettext of a message the catalog does not hold
translate(message) == message

\* format = None (line 218)
FormatNone == "<None>"

\* a mutant of ForceAbsolute: only the bare code "ru" is recognised
ForceAbsolute_exact(code, relative) ==
    IF code = <<"r","u">> THEN FALSE ELSE relative

\* lines 201-202
ForceAbsolute(code, relative) ==
    IF startswith(code, <<"r","u">>) THEN FALSE ELSE relative

\* a mutant of RelativePhrase: minutes are used up to a whole hour
RelativePhrase_hourAt60(seconds) ==
    IF seconds < 50
    THEN [format |-> translate_plural("1 second ago",
                        "%(seconds)d seconds ago", seconds),
          subst |-> [seconds |-> seconds]]
    ELSE IF seconds < 60 * 60
    THEN LET minutes == round_div(seconds, 60)
         IN  [format |-> translate_plural("1 minute ago",
                             "%(minutes)d minutes ago", minutes),
              subst |-> [minutes |-> minutes]]
    ELSE LET hours == round_div(seconds, 60 * 60)
         IN  [format |-> translate_plural("1 hour ago",
                             "%(hours)d hours ago", hours),
              subst |-> [hours |-> hours]]

\* lines 221-232: the phrase returned when relative and days == 0
RelativePhrase(seconds) ==
    IF seconds < 50
    THEN [format |-> translate_plural("1 second ago",
                        "%(seconds)d seconds ago", seconds),
          subst |-> [seconds |-> seconds]]
    ELSE IF seconds < 50 * 60
    THEN LET minutes == round_div(seconds, 60)
         IN  [format |-> translate_plural("1 minute ago",
                             "%(minutes)d minutes ago", minutes),
              subst |-> [minutes |-> minutes]]
    ELSE LET hours == round_div(seconds, 60 * 60)
         IN  [format |-> translate_plural("1 hour ago",
                             "%(hours)d hours ago", hours),
              subst |-> [hours |-> hours]]

\* a mutant of YesterdayApplies: the day-of-month comparison is left out
YesterdayApplies_noDayCheck(days, local_date, local_yesterday, relative) ==
    days = 1 /\ relative

\* lines 236-237
YesterdayApplies(days, local_date, local_yesterday, relative) ==
    /\ days = 1
    /\ dt_day(local_date) = dt_day(local_yesterday)
    /\ relative

\* a mutant of DayTemplate: the weekday template is used for five days too
DayTemplate_weekdayAt5(days, yesterday, shorter) ==
    IF days = 0 THEN translate("%(time)s")
    ELSE IF yesterday
    THEN (IF shorter THEN translate("yesterday")
                     ELSE translate("yesterday at %(time)s"))
    ELSE IF days <= 5
    THEN (IF shorter THEN translate("%(weekday)s")
                     ELSE translate("%(weekday)s at %(time)s"))
    ELSE IF days < 334
    THEN (IF shorter THEN translate("%(month_name)s %(day)s")
                     ELSE translate("%(month_name)s %(day)s at %(time)s"))
    ELSE FormatNone

\* lines 234-245: the template chosen by days, or None
DayTemplate(days, yesterday, shorter) ==
    IF days = 0 THEN translate("%(time)s")
    ELSE IF yesterday
    THEN (IF shorter THEN translate("yesterday")
                     ELSE translate("yesterday at %(time)s"))
    ELSE IF days < 5
    THEN (IF shorter THEN translate("%(weekday)s")
                     ELSE translate("%(weekday)s at %(time)s"))
    ELSE IF days < 334
    THEN (IF shorter THEN translate("%(month_name)s %(day)s")
                     ELSE translate("%(month_name)s %(day)s at %(time)s"))
    ELSE FormatNone

\* lines 247-249
FullTemplate(shorter) ==
    IF shorter THEN translate("%(month_name)s %(day)s, %(year)s")
               ELSE translate("%(month_name)s %(day)s, %(year)s at %(time)s")

\* lines 251-261: the time of day of local_date, as this locale writes it
StrTime(code, local_date) ==
    LET hour   == dt_hour(local_date)
        minute == dt_minute(local_date)
        hour12 == IF hour % 12 = 0 THEN 12 ELSE hour % 12
    IN  IF code \notin {en, en_US, zh_CN}
        THEN str(hour) \o <<":">> \o str02(minute)
        ELSE IF code = zh_CN
        THEN (IF hour >= 12 THEN <<"U+4E0B", "U+5348">>
                            ELSE <<"U+4E0A", "U+5348">>)
             \o str(hour12) \o <<":">> \o str02(minute)
        ELSE str(hour12) \o <<":">> \o str02(minute) \o <<" ">>
             \o (IF hour >= 12 THEN <<"p","m">> ELSE <<"a","m">>)

MonthNames == <<"January", "February", "March", "April", "May", "June", "July",
                "August", "September", "October", "November", "December">>

WeekdayNames == <<"Monday", "Tuesday", "Wednesday", "Thursday", "Friday",
                  "Saturday", "Sunday">>

\* Locale.format_date(date, gmt_offset, relative, shorter, full_format) on the
\* Locale `self`, with datetime.datetime.utcnow() returning `now`.  The value
\* is the chosen format string with the mapping it is interpolated with.
format_date(self, date0, now, gmt_offset, relative0, shorter, full_format) ==
    LET relative        == ForceAbsolute(self.code, relative0)
        date            == IF date0 > now THEN now ELSE date0
        local_date      == date - gmt_offset * 60
        local_now       == now - gmt_offset * 60
        local_yesterday == local_now - 24 * 3600
        difference      == now - date
        seconds         == timedelta_seconds(difference)
        days            == timedelta_days(difference)
        yesterday       == YesterdayApplies(days, local_date, local_yesterday,
                                            relative)
        chosen          == IF ~full_format
                           THEN DayTemplate(days, yesterday, shorter)
                           ELSE FormatNone
        format          == IF chosen = FormatNone THEN FullTemplate(shorter)
                           ELSE chosen
    IN  IF ~full_format /\ relative /\ days = 0
        THEN RelativePhrase(seconds)
        ELSE [format |-> format,
              subst |-> [month_name |-> translate(MonthNames[dt_month(local_date)]),
                         weekday |-> translate(WeekdayNames[dt_weekday(local_date) + 1]),
                         day |-> str(dt_day(local_date)),
                         year |-> str(dt_year(local_date)),
                         time |-> StrTime(self.code, local_date)]]

(***************************************************************************)
(* format_date as a function of its arguments and the clock               *)
(* (specification SpecDate): the call is drawn in the initial state and    *)
(* FormatDate returns from it.                                             *)
(***************************************************************************)
\* the days on which the clock is read
NowDays ==
    { DayOfCivil(2023, 3, 1), DayOfCivil(2024, 1, 1), DayOfCivil(2024, 3, 1),
      DayOfCivil(2024, 5, 31), DayOfCivil(2024, 7, 15) }

\* the times of day at which the clock is read
NowSecs == { 0, 12 * 3600 + 5 * 60, 23 * 3600 + 59 * 60 + 59 }

\* ages of up to MaxNearDays whole days are all tried
MaxNearDays == 5

\* the whole days of the age of the date
DeltaDays == (0..MaxNearDays) \cup {28, 29, 30, 31} \cup {333, 334, 335}

\* the seconds of the age of the date beyond its whole days
DeltaSecs == { 0, 1, 2, 49, 50, 89, 90, 2999, 3000, 3600, 5399, 5400,
               12 * 3600, SecondsPerDay - 1 }

\* gmt_offset, in minutes
GmtOffsets == { 0, 300, 0 - 540 }

\* the codes of the Locale objects format_date is called on
FormatCodes == { en_US, ru_RU, zh_CN }

Nows == { d * SecondsPerDay + s : d \in NowDays, s \in NowSecs }

\* the dates passed with the clock at `now`: past ones, and one in the future
DatesAt(now) ==
    { now - (d * SecondsPerDay + s) : d \in DeltaDays, s \in DeltaSecs }
        \cup { now + 30 }

InitDate ==
    /\ default_locale = en_US
    /\ translations = <<>>
    /\ supported_locales = {en_US}
    /\ ld = IdleLoader
    /\ rd = IdleReader
    /\ \E code \in FormatCodes, now \in Nows, gmt_offset \in GmtOffsets,
          relative \in BOOLEAN, shorter \in BOOLEAN, full_format \in BOOLEAN :
          \E date \in DatesAt(now) :
              ret = [op |-> "format_date", pc |-> "called",
                     self |-> Locale(code, NullTranslations),
                     date |-> date, now |-> now, gmt_offset |-> gmt_offset,
                     relative |-> relative, shorter |-> shorter,
                     full_format |-> full_format,
                     value |-> [format |-> FormatNone, subst |-> <<>>]]

FormatDate ==
    /\ ret.op = "format_date" /\ ret.pc = "called"
    /\ ret' = [ret EXCEPT !.pc = "returned",
                          !.value = format_date(ret.self, ret.date, ret.now,
                                        ret.gmt_offset, ret.relative,
                                        ret.shorter, ret.full_format)]
    /\ UNCHANGED <<default_locale, translations, supported_locales, ld, rd>>

NextDate == FormatDate

SpecDate == InitDate /\ [][NextDate]_vars

(***************************************************************************)
(* Claims about format_date (specification SpecDate)                       *)
(***************************************************************************)
\* the age of the date once it is clamped to the clock, and its two parts
D_Age == IF ret.date > ret.now THEN 0 ELSE ret.now - ret.date

D_Days == D_Age \div SecondsPerDay

D_Secs == D_Age % SecondsPerDay

D_Ru == Len(ret.self.code) >= 2 /\ ret.self.code[1] = "r" /\ ret.self.code[2] = "u"

\* local dates, as day numbers, of the clamped date and of the clock
D_LocalDate == ret.now - D_Age - ret.gmt_offset * 60

D_LocalNow == ret.now - ret.gmt_offset * 60

\* the relative same-day path
D_SameDayPath ==
    /\ ~ret.full_format
    /\ ret.relative /\ ~D_Ru
    /\ D_Days = 0

D_RelativePhrases ==
    { "1 second ago", "%(seconds)d seconds ago",
      "1 minute ago", "%(minutes)d minutes ago",
      "1 hour ago", "%(hours)d hours ago" }

D_YesterdayTemplates == { "yesterday", "yesterday at %(time)s" }

D_WeekdayTemplates == { "%(weekday)s", "%(weekday)s at %(time)s" }

\* c is s / d rounded to the nearest integer, a half rounding up
D_Nearest(c, s, d) == 2 * d * c - d <= 2 * s /\ 2 * s < 2 * d * c + d

\* C5: on the relative same-day path the result is an elapsed-time phrase
\* chosen by the seconds s of the age: seconds below 50, minutes (rounded) below
\* 3000, hours (rounded) from 3000 on; the singular form exactly when the count
\* is 1; never a day-based template.
C5_SameDayPhrase ==
    (ret.op = "format_date" /\ ret.pc = "returned" /\ D_SameDayPath) =>
        LET s == D_Secs
            v == ret.value
        IN  \/ /\ s < 50
               /\ v.subst = [seconds |-> s]
               /\ v.format = IF s = 1 THEN "1 second ago"
                                      ELSE "%(seconds)d seconds ago"
            \/ /\ 50 <= s /\ s < 3000
               /\ \E c \in 0..60 :
                     /\ D_Nearest(c, s, 60)
                     /\ v.subst = [minutes |-> c]
                     /\ v.format = IF c = 1 THEN "1 minute ago"
                                            ELSE "%(minutes)d minutes ago"
            \/ /\ 3000 <= s
               /\ \E c \in 0..24 :
                     /\ D_Nearest(c, s, 3600)
                     /\ v.subst = [hours |-> c]
                     /\ v.format = IF c = 1 THEN "1 hour ago"
                                            ELSE "%(hours)d hours ago"

\* a date exactly 3600 seconds old is "1 hour ago"
C5_Witness ==
    /\ ret.op = "format_date" /\ ret.pc = "returned"
    /\ D_SameDayPath
    /\ D_Secs = 3600
    /\ ret.value.format = "1 hour ago"
    /\ ret.value.subst = [hours |-> 1]

\* C6: off the relative same-day path the template is chosen by the whole days
\* of the age, first match first: time only for 0; 'yesterday' for 1 with equal
\* local days of the month and relative; weekday below 5; month and day below
\* 334; month, day and year otherwise and always under full_format; shorter
\* drops ' at %(time)s' everywhere but in the time-only template.
C6_TemplateByDays ==
    (ret.op = "format_date" /\ ret.pc = "returned" /\ ~D_SameDayPath) =>
        ret.value.format =
            IF ret.full_format
            THEN (IF ret.shorter THEN "%(month_name)s %(day)s, %(year)s"
                  ELSE "%(month_name)s %(day)s, %(year)s at %(time)s")
            ELSE IF D_Days = 0 THEN "%(time)s"
            ELSE IF /\ D_Days = 1
                    /\ dt_day(D_LocalDate) = dt_day(D_LocalNow - SecondsPerDay)
                    /\ ret.relative /\ ~D_Ru
            THEN (IF ret.shorter THEN "yesterday" ELSE "yesterday at %(time)s")
            ELSE IF D_Days < 5
            THEN (IF ret.shorter THEN "%(weekday)s"
                  ELSE "%(weekday)s at %(time)s")
            ELSE IF D_Days < 334
            THEN (IF ret.shorter THEN "%(month_name)s %(day)s"
                  ELSE "%(month_name)s %(day)s at %(time)s")
            ELSE (IF ret.shorter THEN "%(month_name)s %(day)s, %(year)s"
                  ELSE "%(month_name)s %(day)s, %(year)s at %(time)s")

\* a date 333 days old gets the month and day, a shorter one without the time
C6_Witness ==
    /\ ret.op = "format_date" /\ ret.pc = "returned"
    /\ ~ret.full_format /\ ret.shorter
    /\ D_Days = 333
    /\ ret.value.format = "%(month_name)s %(day)s"

\* C7: on a Locale whose code starts with 'ru', format_date never gives a
\* relative phrase nor 'yesterday', whatever its arguments; a same-day date
\* gives the time-only template and a one-day-old date the weekday template.
C7_RuNeverRelative ==
    (ret.op = "format_date" /\ ret.pc = "returned" /\ D_Ru) =>
        /\ ret.value.format \notin D_RelativePhrases
        /\ ret.value.format \notin D_YesterdayTemplates
        /\ D_Days = 0 => ret.value.format = "%(time)s"
        /\ D_Days = 1 => ret.value.format \in D_WeekdayTemplates

\* C7 as amended: the same, the last two templates being promised only when
\* full_format is false.
C7_RuNeverRelativeUnlessFull ==
    (ret.op = "format_date" /\ ret.pc = "returned" /\ D_Ru) =>
        /\ ret.value.format \notin D_RelativePhrases
        /\ ret.value.format \notin D_YesterdayTemplates
        /\ (~ret.full_format /\ D_Days = 0) => ret.value.format = "%(time)s"
        /\ (~ret.full_format /\ D_Days = 1) =>
               ret.value.format \in D_WeekdayTemplates

\* on ru_RU, relative asked for, a date of the day before gets the weekday
C7_Witness ==
    /\ ret.op = "format_date" /\ ret.pc = "returned"
    /\ ret.self.code = ru_RU
    /\ ret.relative /\ ~ret.full_format
    /\ D_Days = 1
    /\ dt_day(D_LocalDate) = dt_day(D_LocalNow - SecondsPerDay)
    /\ ret.value.format \in D_WeekdayTemplates

\* C10: whenever the 'yesterday' template is chosen, the local calendar date
\* of the clamped date is the one just before the local calendar date of now.
C10_YesterdayIsTheDayBefore ==
    (/\ ret.op = "format_date" /\ ret.pc = "returned"
     /\ ret.value.format \in D_YesterdayTemplates) =>
        dt_date(D_LocalDate) = dt_date(D_LocalNow) - 1

\* 'yesterday' across the end of February of a leap year
C10_Witness ==
    /\ ret.op = "format_date" /\ ret.pc = "returned"
    /\ ret.value.format \in D_YesterdayTemplates
    /\ D_Secs > 0
    /\ CivilOfDay(dt_date(D_LocalNow)) = [year |-> 2024, month |-> 3, day |-> 1]
    /\ CivilOfDay(dt_date(D_LocalDate)) = [year |-> 2024, month |-> 2, day |-> 29]

(***************************************************************************)
(* Locale.friendly_number (specification SpecNumber): the call is drawn in *)
(* the initial state and FriendlyNumber returns from it.                   *)
(***************************************************************************)
\* value[-3:]
LastThree(value) ==
    IF Len(value) <= 3 THEN value
    ELSE SubSeq(value, Len(value) - 2, Len(value))

\* value[:-3]
AllButLastThree(value) ==
    IF Len(value) <= 3 THEN <<>>
    ELSE SubSeq(value, 1, Len(value) - 3)

\* lines 313-316: the list parts, in the order it is appended to
RECURSIVE GroupParts(_)
GroupParts(value) ==
    IF value = <<>> THEN <<>>
    ELSE <<LastThree(value)>> \o GroupParts(AllButLastThree(value))

\* ",".join(reversed(parts))
RECURSIVE JoinReversed(_)
JoinReversed(parts) ==
    IF parts = <<>> THEN <<>>
    ELSE IF Len(parts) = 1 THEN parts[1]
    ELSE JoinReversed(Tail(parts)) \o <<",">> \o parts[1]

\* Locale.friendly_number(value) on the Locale `self`
friendly_number(self, value) ==
    IF self.code \notin {en, en_US} THEN str(value)
    ELSE JoinReversed(GroupParts(str(value)))

\* every integer up to MaxValue in size is tried
MaxValue == 1200

Values ==
    ((0 - MaxValue)..MaxValue)
        \cup { 12345, 123456, 1234567, 999999, 1000000, 123456789,
               0 - 12345, 0 - 123456, 0 - 1234567, 0 - 1000000 }

NumberCodes == { en, en_US, fr_FR }

InitNumber ==
    /\ default_locale = en_US
    /\ translations = <<>>
    /\ supported_locales = {en_US}
    /\ ld = IdleLoader
    /\ rd = IdleReader
    /\ \E code \in NumberCodes, value \in Values :
          ret = [op |-> "friendly_number", pc |-> "called",
                 self |-> Locale(code, NullTranslations),
                 arg |-> value, value |-> <<>>]

FriendlyNumber ==
    /\ ret.op = "friendly_number" /\ ret.pc = "called"
    /\ ret' = [ret EXCEPT !.pc = "returned",
                          !.value = friendly_number(ret.self, ret.arg)]
    /\ UNCHANGED <<default_locale, translations, supported_locales, ld, rd>>

NextNumber == FriendlyNumber

SpecNumber == InitNumber /\ [][NextNumber]_vars

N_IsDigit(c) == c \in {"0","1","2","3","4","5","6","7","8","9"}

N_WithoutCommas(s) == SelectSeq(s, LAMBDA c : c # ",")

\* C8: under 'en' and 'en_US' friendly_number gives the standard thousands
\* grouping of every integer: without its commas the result is the decimal
\* string of the value, every comma stands between two digits and is followed
\* by a group of exactly three digits; under any other code the result is the
\* decimal string, with no comma.
C8_ThousandsGrouping ==
    (ret.op = "friendly_number" /\ ret.pc = "returned") =>
        LET r == ret.value
        IN  IF ret.self.code \in {en, en_US}
            THEN /\ N_WithoutCommas(r) = str(ret.arg)
                 /\ \A i \in 1..Len(r) : r[i] = "," =>
                       /\ i > 1 /\ N_IsDigit(r[i - 1])
                       /\ i + 3 <= Len(r)
                       /\ \A j \in (i + 1)..(i + 3) : N_IsDigit(r[j])
                       /\ i + 4 <= Len(r) => r[i + 4] = ","
            ELSE r = str(ret.arg)

====
